---- MODULE Spec2Model ----
(***************************************************************************)
(* Conversation engine (src/bot/engine, processInbound) and tree validator *)
(* (src/lib/tenantTree, tenantTreeNodesSchema) of wa-leads-api.            *)
(*                                                                         *)
(* Strings on which the code works character by character (answers,        *)
(* option ids and titles) are sequences of one-character strings; node     *)
(* keys, saveAs keys and bodies, which the code only compares and copies,  *)
(* are plain strings.                                                      *)
(*                                                                         *)
(* Spec applies processInbound once to every tree, stored conversation     *)
(* state and inbound message of a bounded family; SpecValidator applies    *)
(* the validator once to every tree of the family; SpecTenantTree is one   *)
(* PUT /tenants/:tenantId/tree (src/routes/protected); SpecWebhook is the  *)
(* POST handler of the WhatsApp webhook (src/routes/whatsapp) run by       *)
(* concurrent requests over the tables of src/schema.sql; SpecLead is the  *)
(* same handler on the default tree, from a conversation under way.        *)
(***************************************************************************)
EXTENDS Integers, Sequences, FiniteSets, TLC

VARIABLES
  tree,            \* the tree definition handed to the engine or the validator
  conversation,    \* the stored state: currentNodeKey and answers
  inboundMessage,  \* the message of the call that was made
  output,          \* what processInbound returned, or that it threw
  issues,          \* the issues the validator reported
  tenant_trees,    \* table tenant_trees: the tree stored for the tenant, if any
  res,             \* the responses the PUT handler has sent
  upsertTenantTreeCalls,  \* how many times the PUT handler called upsertTenantTree
  wa_inbound_dedupe,      \* table wa_inbound_dedupe: the message ids inserted
  conversations,   \* table conversations: the row of each customer, if any
  requests,        \* the POST requests in flight: position and locals of each
  effects,         \* per message id: engine calls, upserts and sends made for it
  deliveries       \* what Meta delivers under each message id

engineVars == <<tree, conversation, inboundMessage, output, issues>>

tenantTreeVars == <<tenant_trees, res, upsertTenantTreeCalls>>

webhookVars == <<wa_inbound_dedupe, conversations, requests, effects, deliveries>>

vars == <<engineVars, tenantTreeVars, webhookVars>>

-----------------------------------------------------------------------------
(* JavaScript values *)

\* undefined where a node key, saveAs key, type or body is expected
Undefined == "<undefined>"

\* a value that is not a string where a string (answer, id) is expected
NoString == <<"<undefined>">>

\* the empty string
EmptyString == <<>>

\* String.prototype.trim strips these from both ends
WhitespaceChars == {" ", "\t", "\n"}

UpperCaseChars ==
  << "A", "B", "C", "D", "E", "F", "G", "H", "I", "J", "K", "L", "M",
     "N", "O", "P", "Q", "R", "S", "T", "U", "V", "W", "X", "Y", "Z" >>

LowerCaseChars ==
  << "a", "b", "c", "d", "e", "f", "g", "h", "i", "j", "k", "l", "m",
     "n", "o", "p", "q", "r", "s", "t", "u", "v", "w", "x", "y", "z" >>

ToLowerCaseChar(c) ==
  IF \E i \in 1..Len(UpperCaseChars) : UpperCaseChars[i] = c
  THEN LowerCaseChars[CHOOSE i \in 1..Len(UpperCaseChars) : UpperCaseChars[i] = c]
  ELSE c

\* String.prototype.toLowerCase
ToLowerCase(s) == [i \in 1..Len(s) |-> ToLowerCaseChar(s[i])]

RECURSIVE TrimStart(_)
TrimStart(s) ==
  IF s # <<>> /\ Head(s) \in WhitespaceChars THEN TrimStart(Tail(s)) ELSE s

RECURSIVE TrimEnd(_)
TrimEnd(s) ==
  IF s # <<>> /\ s[Len(s)] \in WhitespaceChars
  THEN TrimEnd(SubSeq(s, 1, Len(s) - 1))
  ELSE s

\* String.prototype.trim
Trim(s) == TrimEnd(TrimStart(s))

\* truthiness of a string value: undefined and "" are falsy
TruthyString_AnyString(s) == s # NoString

TruthyString(s) == s # NoString /\ s # EmptyString

\* truthiness of a key-typed value
TruthyKey(k) == k # Undefined /\ k # ""

-----------------------------------------------------------------------------
(* Nodes and trees (src/bot/tree.ts) *)

Option(id, title, next) == [id |-> id, title |-> title, next |-> next]

TextNode(body, saveAs, next) ==
  [type |-> "text", body |-> body, saveAs |-> saveAs, next |-> next, options |-> <<>>]

ListNode(body, saveAs, options) ==
  [type |-> "list", body |-> body, saveAs |-> saveAs, next |-> Undefined, options |-> options]

ButtonsNode(body, saveAs, options) ==
  [type |-> "buttons", body |-> body, saveAs |-> saveAs, next |-> Undefined, options |-> options]

EndNode(body) ==
  [type |-> "end", body |-> body, saveAs |-> Undefined, next |-> Undefined, options |-> <<>>]

\* A tree: its own keys in insertion order (Object.keys) and the node of each.
TreeDefinition(keys, nodes) == [keys |-> keys, nodes |-> nodes]

\* Every plain object inherits these property names from Object.prototype;
\* nodes[k] for such a k is a function object, which is truthy.
ObjectPrototypeKeys == {"constructor"}

\* the value of an inherited property: an object with none of a node's fields
InheritedProperty ==
  [type |-> Undefined, body |-> Undefined, saveAs |-> Undefined, next |-> Undefined,
   options |-> <<>>, inherited |-> TRUE]

\* the value of nodes[k] when k is neither own nor inherited
UndefinedNode == [undefined |-> TRUE]

\* nodes[key]: property lookup on a plain object
Lookup(nodes, key) ==
  IF key \in DOMAIN nodes.nodes THEN nodes.nodes[key]
  ELSE IF key \in ObjectPrototypeKeys THEN InheritedProperty
  ELSE UndefinedNode

\* a ?? b on node values
Coalesce(a, b) == IF a = UndefinedNode THEN b ELSE a

-----------------------------------------------------------------------------
(* The default tree (src/bot/tree.ts, TREE); bodies and titles are written  *)
(* without their accents and punctuation marks outside ASCII.              *)

TREE ==
  TreeDefinition(
    <<"start", "date", "city", "budget", "done">>,
    [k \in {"start", "date", "city", "budget", "done"} |->
      CASE k = "start" ->
             ListNode("Que te interesa?", "service",
               << Option(<<"r","e","n","t">>, <<"R","e","n","t","a">>, "date"),
                  Option(<<"d","j">>, <<"D","J">>, "date"),
                  Option(<<"q","u","o","t","e">>,
                         <<"C","o","t","i","z","a","c","i","o","n">>, "date") >>)
        [] k = "date" -> TextNode("Para que fecha lo necesitas?", "date", "city")
        [] k = "city" ->
             ButtonsNode("En que ciudad sera el evento?", "city",
               << Option(<<"s","a","l","t","i","l","l","o">>,
                         <<"S","a","l","t","i","l","l","o">>, "budget"),
                  Option(<<"r","a","m","o","s">>, <<"R","a","m","o","s">>, "budget"),
                  Option(<<"a","r","t","e","a","g","a">>,
                         <<"A","r","t","e","a","g","a">>, "budget") >>)
        [] k = "budget" ->
             ButtonsNode("Cual es tu presupuesto aproximado?", "budget",
               << Option(<<"$">>, <<"$">>, "done"),
                  Option(<<"$","$">>, <<"$","$">>, "done"),
                  Option(<<"$","$","$">>, <<"$","$","$">>, "done") >>)
        [] OTHER -> EndNode("Gracias. Ya tengo tus datos.")])

\* processInbound called without the optional tree argument
NoTree == [undefined |-> TRUE]

-----------------------------------------------------------------------------
(* Inbound messages (src/bot/engine) *)

NotARecord == [isRecord |-> FALSE]

\* {type: 'text', text: {body}}; body = NoString when it is not a string
InboundTextMessage(body) ==
  [type |-> "text", text |-> [isRecord |-> TRUE, body |-> body], interactive |-> NotARecord]

\* {type: 'interactive', interactive: {button_reply?: {id}, list_reply?: {id}}};
\* an id is NoString when its reply object is absent or its id is not a string
InboundInteractiveMessage(buttonId, listId) ==
  [type |-> "interactive", text |-> NotARecord,
   interactive |-> [isRecord |-> TRUE, button_reply |-> buttonId, list_reply |-> listId]]

\* any message carrying neither a text nor an interactive object
InboundOtherMessage(type) == [type |-> type, text |-> NotARecord, interactive |-> NotARecord]

isRecord(value) == value.isRecord

isTextMessage(msg) ==
  /\ msg.type = "text"
  /\ isRecord(msg.text)
  /\ msg.text.body # NoString

isInteractiveMessage(msg) ==
  /\ msg.type = "interactive"
  /\ isRecord(msg.interactive)

\* the error a property access on undefined raises
Threw == [threw |-> TRUE]

buildResponseAction(node) ==
  IF node = UndefinedNode THEN Threw
  ELSE IF node.type = "text" THEN [type |-> "text", body |-> node.body]
  ELSE IF node.type = "list" THEN
    [type |-> "list", body |-> node.body,
     options |-> [i \in 1..Len(node.options) |->
                    [id |-> node.options[i].id, title |-> node.options[i].title]]]
  ELSE IF node.type = "buttons" THEN
    [type |-> "buttons", body |-> node.body,
     options |-> [i \in 1..Len(node.options) |->
                    [id |-> node.options[i].id, title |-> node.options[i].title]]]
  ELSE [type |-> "end", body |-> node.body]

parseInboundAnswer_ButtonOnly(msg) ==
  IF isTextMessage(msg) THEN Trim(msg.text.body)
  ELSE IF isInteractiveMessage(msg) /\ msg.interactive.button_reply # NoString
    THEN msg.interactive.button_reply
  ELSE NoString

parseInboundAnswer_Untrimmed(msg) ==
  IF isTextMessage(msg) THEN msg.text.body
  ELSE IF isInteractiveMessage(msg) /\ msg.interactive.button_reply # NoString
    THEN msg.interactive.button_reply
  ELSE IF isInteractiveMessage(msg) /\ msg.interactive.list_reply # NoString
    THEN msg.interactive.list_reply
  ELSE NoString

parseInboundAnswer(msg) ==
  IF isTextMessage(msg) THEN Trim(msg.text.body)
  ELSE IF isInteractiveMessage(msg) /\ msg.interactive.button_reply # NoString
    THEN msg.interactive.button_reply
  ELSE IF isInteractiveMessage(msg) /\ msg.interactive.list_reply # NoString
    THEN msg.interactive.list_reply
  ELSE NoString

\* the result of Array.prototype.find when no element satisfies the test
UndefinedOption == [undefined |-> TRUE]

\* the test of matchOption's find callback
OptionMatches_TitleCaseSensitive(opt, normalized) ==
  ToLowerCase(opt.id) = normalized \/ opt.title = normalized

OptionMatches(opt, normalized) ==
  ToLowerCase(opt.id) = normalized \/ ToLowerCase(opt.title) = normalized

\* matchOption looking for an id among all the options before any title
matchOption_IdsFirst(node, answer) ==
  IF node.type # "list" /\ node.type # "buttons" THEN UndefinedOption
  ELSE LET normalized == ToLowerCase(Trim(answer))
           byId == {i \in 1..Len(node.options) : ToLowerCase(node.options[i].id) = normalized}
           byTitle == {i \in 1..Len(node.options) :
                         ToLowerCase(node.options[i].title) = normalized}
           hits == IF byId # {} THEN byId ELSE byTitle
       IN IF hits = {} THEN UndefinedOption
          ELSE node.options[CHOOSE i \in hits : \A j \in hits : i <= j]

matchOption(node, answer) ==
  IF node.type # "list" /\ node.type # "buttons" THEN UndefinedOption
  ELSE LET normalized == ToLowerCase(Trim(answer))
           hits == {i \in 1..Len(node.options) : OptionMatches(node.options[i], normalized)}
       IN IF hits = {} THEN UndefinedOption
          ELSE node.options[CHOOSE i \in hits : \A j \in hits : i <= j]

resolveNodeKey_FirstKey(nodes, candidate) ==
  IF nodes.keys # <<>> THEN nodes.keys[1] ELSE "start"

resolveNodeKey(nodes, candidate) ==
  IF TruthyKey(candidate) /\ Lookup(nodes, candidate) # UndefinedNode THEN candidate
  ELSE IF Lookup(nodes, "start") # UndefinedNode THEN "start"
  ELSE IF nodes.keys # <<>> THEN nodes.keys[1]
  ELSE "start"

\* conversation.answers when the field is absent
UndefinedAnswers == [undefined |-> TRUE]

EmptyAnswers == <<>>

\* node?.type and node?.saveAs
TypeOf(node) == IF node = UndefinedNode THEN Undefined ELSE node.type

SaveAsOf(node) == IF node = UndefinedNode THEN Undefined ELSE node.saveAs

\* the object literal every return statement of processInbound builds
ProcessInboundOutput(nextNodeKey, updatedAnswers, node, shouldHandoff) ==
  IF node = UndefinedNode THEN Threw
  ELSE [threw |-> FALSE,
        nextNodeKey |-> nextNodeKey,
        updatedAnswers |-> updatedAnswers,
        responseAction |-> buildResponseAction(node),
        shouldHandoff |-> shouldHandoff]

\* the return of the `currentNode?.type === 'end'` branch
TerminalRestart_Handoff(fallbackKey, updatedAnswers, startNode) ==
  ProcessInboundOutput(fallbackKey, updatedAnswers, startNode, TRUE)

TerminalRestart(fallbackKey, updatedAnswers, startNode) ==
  ProcessInboundOutput(fallbackKey, updatedAnswers, startNode, FALSE)

\* the reprompt both the no-answer and the no-next branches return
Reprompt_AlwaysStart(currentNodeKey, fallbackKey, updatedAnswers, currentNode, startNode) ==
  ProcessInboundOutput(fallbackKey, updatedAnswers, startNode, FALSE)

Reprompt(currentNodeKey, fallbackKey, updatedAnswers, currentNode, startNode) ==
  IF currentNodeKey = fallbackKey
  THEN ProcessInboundOutput(fallbackKey, updatedAnswers, startNode, FALSE)
  ELSE ProcessInboundOutput(currentNodeKey, updatedAnswers, currentNode, FALSE)

\* the final return: the response of the resolved next node
Advance_NoHandoff(nextNodeKey, updatedAnswers, nextNode) ==
  ProcessInboundOutput(nextNodeKey, updatedAnswers, nextNode, FALSE)

Advance(nextNodeKey, updatedAnswers, nextNode) ==
  ProcessInboundOutput(nextNodeKey, updatedAnswers, nextNode, TypeOf(nextNode) = "end")

\* the edge the answer selects at the current node, Undefined when none
NextNodeKeyOf(currentNode, answer) ==
  IF TypeOf(currentNode) = "text" THEN currentNode.next
  ELSE IF TypeOf(currentNode) \in {"list", "buttons"} THEN
    LET opt == matchOption(currentNode, answer)
    IN IF opt # UndefinedOption THEN opt.next ELSE Undefined
  ELSE Undefined

\* answers after `if (currentNode?.saveAs) updatedAnswers[currentNode.saveAs] = answer`
RecordAnswer_Normalized(answers, currentNode, answer) ==
  IF TruthyKey(SaveAsOf(currentNode))
  THEN [k \in DOMAIN answers \cup {currentNode.saveAs} |->
          IF k = currentNode.saveAs THEN ToLowerCase(Trim(answer)) ELSE answers[k]]
  ELSE answers

RecordAnswer_OnlySaveAs(answers, currentNode, answer) ==
  IF TruthyKey(SaveAsOf(currentNode))
  THEN [k \in {currentNode.saveAs} |-> answer]
  ELSE answers

RecordAnswer_MatchedId(answers, currentNode, answer) ==
  IF TruthyKey(SaveAsOf(currentNode))
  THEN [k \in DOMAIN answers \cup {currentNode.saveAs} |->
          IF k # currentNode.saveAs THEN answers[k]
          ELSE IF matchOption(currentNode, answer) # UndefinedOption
            THEN matchOption(currentNode, answer).id
          ELSE answer]
  ELSE answers

RecordAnswer(answers, currentNode, answer) ==
  IF TruthyKey(SaveAsOf(currentNode))
  THEN [k \in DOMAIN answers \cup {currentNode.saveAs} |->
          IF k = currentNode.saveAs THEN answer ELSE answers[k]]
  ELSE answers

processInbound(conv, msg, tr) ==
  LET nodes == IF tr = NoTree THEN TREE ELSE tr
      fallbackKey == resolveNodeKey(nodes, "start")
      currentNodeKey ==
        resolveNodeKey(nodes, IF conv.currentNodeKey # Undefined
                              THEN conv.currentNodeKey ELSE fallbackKey)
      currentNode == Coalesce(Lookup(nodes, currentNodeKey), Lookup(nodes, fallbackKey))
      copied == IF conv.answers = UndefinedAnswers THEN EmptyAnswers ELSE conv.answers
      answer == parseInboundAnswer(msg)
      startNode == Coalesce(Lookup(nodes, fallbackKey), Lookup(nodes, currentNodeKey))
      updatedAnswers == RecordAnswer(copied, currentNode, answer)
      nextNodeKey == NextNodeKeyOf(currentNode, answer)
      nextNode == Coalesce(Lookup(nodes, nextNodeKey), startNode)
  IN IF TypeOf(currentNode) = "end"
       THEN TerminalRestart(fallbackKey, copied, startNode)
     ELSE IF ~TruthyString(answer)
       THEN Reprompt(currentNodeKey, fallbackKey, copied, currentNode, startNode)
     ELSE IF ~TruthyKey(nextNodeKey)
       THEN Reprompt(currentNodeKey, fallbackKey, updatedAnswers, currentNode, startNode)
     ELSE Advance(nextNodeKey, updatedAnswers, nextNode)

\* the call takes the branch that follows an edge of the current node
\* (tree.ts 227-262): the node is not an end node, the message carries an
\* answer and the answer selects a next
Advances(conv, msg, tr) ==
  LET nodes == IF tr = NoTree THEN TREE ELSE tr
      fallbackKey == resolveNodeKey(nodes, "start")
      currentNodeKey ==
        resolveNodeKey(nodes, IF conv.currentNodeKey # Undefined
                              THEN conv.currentNodeKey ELSE fallbackKey)
      currentNode == Coalesce(Lookup(nodes, currentNodeKey), Lookup(nodes, fallbackKey))
      answer == parseInboundAnswer(msg)
  IN /\ processInbound(conv, msg, tr) # Threw
     /\ TypeOf(currentNode) # "end"
     /\ TruthyString(answer)
     /\ TruthyKey(NextNodeKeyOf(currentNode, answer))

-----------------------------------------------------------------------------
(* Tree validator (src/lib/tenantTree) *)

\* z.string().min(1) on a key-typed field
NonEmptyKey(k) == k # Undefined /\ k # ""

\* treeOptionSchema
treeOptionSchema(opt) ==
  /\ opt.id # NoString /\ Len(opt.id) >= 1
  /\ opt.title # NoString /\ Len(opt.title) >= 1
  /\ NonEmptyKey(opt.next)

\* baseNodeSchema: body: z.string().min(1), saveAs: z.string().min(1).optional()
baseNodeSchema(node) ==
  /\ NonEmptyKey(node.body)
  /\ node.saveAs # ""

\* the member of the discriminated union the node's type selects
nodeSchema(node) ==
  /\ baseNodeSchema(node)
  /\ node.type \in {"text", "list", "buttons", "end"}
  /\ node.type = "text" => NonEmptyKey(node.next)
  /\ node.type \in {"list", "buttons"} =>
       /\ Len(node.options) >= 1
       /\ \A i \in 1..Len(node.options) : treeOptionSchema(node.options[i])

\* issues of z.record(z.discriminatedUnion(...)), in key order; the issues of
\* the fields of one node are summarised as one entry for the node
RECURSIVE SchemaIssues(_, _)
SchemaIssues(nodes, keys) ==
  IF keys = <<>> THEN <<>>
  ELSE (IF nodeSchema(nodes.nodes[Head(keys)])
        THEN <<>>
        ELSE << [message |-> "invalid node", path |-> <<Head(keys)>>] >>)
       \o SchemaIssues(nodes, Tail(keys))

\* `!nodes[next]`: the issue test of the superRefine loop
MissingNext(nodes, next) == Lookup(nodes, next) = UndefinedNode

\* issues of the inner loop over node.options.entries(), index from 0
RECURSIVE OptionIssues(_, _, _)
OptionIssues(nodes, key, index) ==
  LET options == nodes.nodes[key].options
  IN IF index >= Len(options) THEN <<>>
     ELSE (IF MissingNext(nodes, options[index + 1].next)
           THEN << [message |-> "option points to missing next node",
                    path |-> <<key, "options", index, "next">>] >>
           ELSE <<>>)
          \o OptionIssues(nodes, key, index + 1)

\* issues one iteration of the loop over Object.entries(nodes) adds
NodeIssues(nodes, key) ==
  LET node == nodes.nodes[key]
  IN IF node.type = "text" THEN
       IF MissingNext(nodes, node.next)
       THEN << [message |-> "node points to missing next node", path |-> <<key, "next">>] >>
       ELSE <<>>
     ELSE IF node.type \in {"list", "buttons"} THEN OptionIssues(nodes, key, 0)
     ELSE <<>>

RECURSIVE EntriesIssues(_, _)
EntriesIssues(nodes, keys) ==
  IF keys = <<>> THEN <<>>
  ELSE NodeIssues(nodes, Head(keys)) \o EntriesIssues(nodes, Tail(keys))

\* `'start' in nodes`: own or inherited property
HasStart(nodes) == "start" \in DOMAIN nodes.nodes \cup ObjectPrototypeKeys

\* the issues the superRefine callback adds
superRefine(nodes) ==
  (IF Len(nodes.keys) = 0
   THEN << [message |-> "tree must define at least one node", path |-> <<>>] >>
   ELSE <<>>)
  \o (IF ~HasStart(nodes)
      THEN << [message |-> "tree must define a start node", path |-> <<>>] >>
      ELSE <<>>)
  \o EntriesIssues(nodes, nodes.keys)

\* The issue lists tenantTreeNodesSchema can report for a tree.  Whether the
\* refinement still runs on a record that already has schema issues is decided
\* inside the zod library: both outcomes are kept.
tenantTreeNodesSchema(nodes) ==
  LET schema == SchemaIssues(nodes, nodes.keys)
  IN IF schema = <<>> THEN {superRefine(nodes)}
     ELSE {schema, schema \o superRefine(nodes)}

\* safeParse(...).success for a reported issue list
Success_Always(reported) == TRUE

Success(reported) == reported = <<>>

-----------------------------------------------------------------------------
(* Bounded inputs *)

\* trees are taken at most this many edits away from a base tree
MaxEdits == 2

S_rent == <<"r","e","n","t">>

S_RENT == <<"R","E","N","T">>

S_Renta == <<"R","e","n","t","a">>

S_renta == <<"r","e","n","t","a">>

S_rent_padded == <<" ","r","e","n","t"," ">>

S_dj == <<"d","j">>

S_dj_padded == <<"\t","d","j","\n">>

S_Zz == <<"Z","z">>

S_Zz_padded == <<" ","Z","z"," ">>

S_xx == <<"x","x">>

S_vip == <<"v","i","p">>

S_blank == <<" ">>

S_20_de_julio == <<"2","0"," ","d","e"," ","j","u","l","i","o">>

S_saltillo == <<"s","a","l","t","i","l","l","o">>

S_budget_low == <<"$">>

\* the tree of the end-to-end scenario
ScenarioTree ==
  TreeDefinition(
    <<"start", "date", "done">>,
    [k \in {"start", "date", "done"} |->
      CASE k = "start" ->
             ListNode("Que te interesa?", "service", << Option(S_rent, S_Renta, "date") >>)
        [] k = "date" -> TextNode("Fecha?", "date", "done")
        [] OTHER -> EndNode("Gracias")])

\* a tree whose start node is neither its first key nor a menu, with a cycle and
\* a menu whose options share strings between ids and titles
BranchTree ==
  TreeDefinition(
    <<"menu", "start", "bye">>,
    [k \in {"menu", "start", "bye"} |->
      CASE k = "menu" ->
             ButtonsNode("Elige", "choice",
               << Option(S_dj, S_RENT, "bye"), Option(S_rent, S_Zz, "start") >>)
        [] k = "start" -> TextNode("Hola", Undefined, "menu")
        [] OTHER -> EndNode("Adios")])

\* a tree whose start node is terminal
EndTree == TreeDefinition(<<"start">>, [k \in {"start"} |-> EndNode("Fin")])

\* a tree whose only option has an id and a title with whitespace around them
PaddedTree ==
  TreeDefinition(
    <<"start", "done">>,
    [k \in {"start", "done"} |->
      IF k = "start"
      THEN ButtonsNode("Elige", Undefined, << Option(S_Zz_padded, S_rent_padded, "done") >>)
      ELSE EndNode("Listo")])

BaseTrees == {ScenarioTree, BranchTree, EndTree, PaddedTree}

\* keys no tree of the family defines: not a property at all, inherited, empty
StaleKeys == {"ghost"} \cup ObjectPrototypeKeys \cup {""}

Targets(t) == DOMAIN t.nodes \cup StaleKeys

WithNode(t, k, node) == [t EXCEPT !.nodes[k] = node]

OptionSlots(t) ==
  UNION {{<<k, i>> : i \in 1..Len(t.nodes[k].options)} :
           k \in {q \in DOMAIN t.nodes : t.nodes[q].type \in {"list", "buttons"}}}

\* one next of the tree changed
Retargets(t) ==
  {WithNode(t, k, [t.nodes[k] EXCEPT !.next = x]) :
     k \in {q \in DOMAIN t.nodes : t.nodes[q].type = "text"}, x \in Targets(t)}
  \cup {WithNode(t, s[1], [t.nodes[s[1]] EXCEPT !.options[s[2]].next = x]) :
          s \in OptionSlots(t), x \in Targets(t)}

\* one node removed
Deletions(t) ==
  {TreeDefinition(SelectSeq(t.keys, LAMBDA q : q # k),
                  [q \in DOMAIN t.nodes \ {k} |-> t.nodes[q]]) : k \in DOMAIN t.nodes}

\* one node's saveAs set or unset, one node made terminal, one menu emptied
Reshapes(t) ==
  {WithNode(t, k, [t.nodes[k] EXCEPT !.saveAs = x]) :
     k \in {q \in DOMAIN t.nodes : t.nodes[q].type # "end"}, x \in {Undefined, "note"}}
  \cup {WithNode(t, k, EndNode(t.nodes[k].body)) : k \in DOMAIN t.nodes}
  \cup {WithNode(t, k, [t.nodes[k] EXCEPT !.options = <<>>]) :
          k \in {q \in DOMAIN t.nodes : t.nodes[q].type \in {"list", "buttons"}}}

Edits(t) == Retargets(t) \cup Deletions(t) \cup Reshapes(t)

RECURSIVE EditedUpTo(_, _)
EditedUpTo(ts, n) ==
  IF n = 0 THEN ts
  ELSE EditedUpTo(ts \cup UNION {Edits(t) : t \in ts}, n - 1)

\* the tree definitions the engine and the validator are given
Trees == EditedUpTo(BaseTrees, MaxEdits) \cup {TREE}

AnswersPool ==
  { EmptyAnswers,
    [service |-> S_rent],
    [service |-> S_dj, note |-> S_vip] }

\* stored conversation states: no state yet, a state at a key of the tree, a
\* state at a key the tree does not define
ConversationStates(t) ==
  { [currentNodeKey |-> Undefined, answers |-> UndefinedAnswers] }
  \cup [currentNodeKey : {Undefined} \cup (IF t = NoTree THEN DOMAIN TREE.nodes
                                           ELSE DOMAIN t.nodes) \cup StaleKeys,
        answers : AnswersPool]

InboundMessages ==
  {InboundTextMessage(b) :
     b \in {EmptyString, S_blank, S_rent, S_RENT, S_rent_padded, S_renta, S_dj_padded,
            S_Zz, S_xx, S_20_de_julio, NoString}}
  \cup {InboundInteractiveMessage(m[1], m[2]) :
          m \in { <<S_rent, NoString>>, <<NoString, S_rent>>, <<S_RENT, S_xx>>,
                  <<NoString, NoString>>, <<EmptyString, S_rent>>,
                  <<S_Zz_padded, NoString>>, <<NoString, S_xx>> }}
  \cup {InboundOtherMessage(ty) : ty \in {"image", "text", "interactive"}}

-----------------------------------------------------------------------------
(* Tables (src/schema.sql), repositories (src/repositories/conversationsRepo) *)
(* and the handlers that use them                                             *)

\* no call made yet: no message, no output, no issue list
NoMessage == [type |-> Undefined]

NoOutput == [pending |-> TRUE]

NotValidated == << [message |-> "<not validated>", path |-> <<>>] >>

\* the result of maybeSingle() when no row matches
NoRow == [row |-> FALSE]

\* a row of table conversations, reduced to the columns the handler reads and
\* writes; slug and the timestamps are left out
ConversationRow(current_node, answers, handoff_to_human) ==
  [current_node |-> current_node, answers |-> answers,
   handoff_to_human |-> handoff_to_human]

\* the unique violation an insert raises on the primary key of wa_inbound_dedupe
UniqueViolation_Never(table, message_id) == FALSE

UniqueViolation(table, message_id) == message_id \in table

\* Boolean(existingConversation?.handoff_to_human)
handoffToHuman_Never(existingConversation) == FALSE

handoffToHuman(existingConversation) ==
  existingConversation # NoRow /\ existingConversation.handoff_to_human

\* tenantTreeRow?.tree ?? TREE
treeDefinitionOf_Scenario(tenantTreeRow) ==
  IF tenantTreeRow = NoRow THEN ScenarioTree ELSE tenantTreeRow

treeDefinitionOf(tenantTreeRow) ==
  IF tenantTreeRow = NoRow THEN TREE ELSE tenantTreeRow

\* the conversation argument the handler builds from the row it read
ConversationOf(existingConversation) ==
  IF existingConversation = NoRow
  THEN [currentNodeKey |-> Undefined, answers |-> EmptyAnswers]
  ELSE [currentNodeKey |-> existingConversation.current_node,
        answers |-> existingConversation.answers]

UpsertedRow_WithHandoff(row, nextNodeKey, updatedAnswers) ==
  ConversationRow(nextNodeKey, updatedAnswers, TRUE)

\* the row upsertConversation leaves: the payload's columns replace the row's,
\* handoff_to_human keeps its value, or takes its default on insert
UpsertedRow(row, nextNodeKey, updatedAnswers) ==
  ConversationRow(nextNodeKey, updatedAnswers,
                  IF row = NoRow THEN FALSE ELSE row.handoff_to_human)

\* the send call the handler makes for a response action
NoSend == [api |-> Undefined]

RenderOutbound_TextOnly(to, responseAction) ==
  [api |-> "sendText", to |-> to, text |-> responseAction.body]

RenderOutbound(to, responseAction) ==
  IF responseAction.type \in {"text", "end"}
    THEN [api |-> "sendText", to |-> to, text |-> responseAction.body]
  ELSE IF responseAction.type = "buttons"
    THEN [api |-> "sendButtons", to |-> to, text |-> responseAction.body,
          buttons |-> responseAction.options]
  ELSE IF responseAction.type = "list"
    THEN [api |-> "sendList", to |-> to, text |-> responseAction.body,
          buttonText |-> "Seleccionar",
          sections |-> << [title |-> "Opciones",
                           rows |-> [i \in 1..Len(responseAction.options) |->
                                       [id |-> responseAction.options[i].id,
                                        title |-> responseAction.options[i].title]]] >>]
  ELSE NoSend

\* the requests the webhook handles at the same time
RequestSlots == {1, 2}

\* message ids Meta delivers
MaxMessageIds == 2

MessageIds == 1..MaxMessageIds

Customers == {"5215550001"}

TheLead == CHOOSE c \in Customers : TRUE

\* a tree of which one node cannot be reached from start
UnreachableTree ==
  WithNode(BranchTree, "start", TextNode("Hola", "name", "bye"))

\* a tree the validator accepts with a next that names no node of it
InheritedNextTree ==
  WithNode(ScenarioTree, "date", TextNode("Fecha?", "date", "constructor"))

\* the trees found in table tenant_trees: PUT stores what the validator accepts
StoredTrees == {ScenarioTree, UnreachableTree, PaddedTree, InheritedNextTree}

\* the messages the customer sends to the webhook
WebhookMessages ==
  << InboundTextMessage(S_Renta),
     InboundTextMessage(S_20_de_julio),
     InboundOtherMessage("image"),
     InboundInteractiveMessage(S_rent, NoString) >>

\* what Meta delivers under each message id, a redelivery repeating its
\* payload; the deliveries arrive in any order and any number of times
WebhookDeliveries ==
  [id \in MessageIds |->
     [from |-> TheLead,
      message |-> WebhookMessages[((id - 1) % Len(WebhookMessages)) + 1]]]

NoMessageId == 0

\* a request slot before its first request
IdleRequest ==
  [pc |-> "idle", messageId |-> NoMessageId, afterHandoff |-> FALSE,
   existingConversation |-> NoRow, treeDefinition |-> NoTree, result |-> NoOutput,
   status |-> 0, outcome |-> "none"]

\* nothing done yet for a message id; advanced tells whether the engine call
\* made for the id moved the conversation along an edge
NoEffects == [engineCalls |-> 0, upserts |-> 0, sends |-> <<>>, advanced |-> FALSE]

TenantTreeIdle ==
  /\ res = <<>>
  /\ upsertTenantTreeCalls = 0

WebhookIdle ==
  /\ wa_inbound_dedupe = {}
  /\ conversations = [c \in Customers |-> NoRow]
  /\ requests = [h \in RequestSlots |-> IdleRequest]
  /\ effects = [id \in MessageIds |-> NoEffects]
  /\ deliveries = WebhookDeliveries

\* the tables and handlers while only the engine or the validator is exercised
StorageIdle ==
  /\ tenant_trees = NoRow
  /\ TenantTreeIdle
  /\ WebhookIdle

\* the variables of the single calls while a handler is exercised
EngineIdle ==
  /\ tree = NoTree
  /\ conversation = [currentNodeKey |-> Undefined, answers |-> UndefinedAnswers]
  /\ inboundMessage = NoMessage
  /\ output = NoOutput
  /\ issues = NotValidated

-----------------------------------------------------------------------------
(* The engine as it is called: one conversation state, one message, one tree *)

Init ==
  /\ tree \in Trees \cup {NoTree}
  /\ conversation \in ConversationStates(tree)
  /\ inboundMessage = NoMessage
  /\ output = NoOutput
  /\ issues = NotValidated
  /\ StorageIdle

\* one call of processInbound
ProcessInbound(msg) ==
  /\ output = NoOutput
  /\ inboundMessage' = msg
  /\ output' = processInbound(conversation, msg, tree)
  /\ UNCHANGED <<tree, conversation, issues>>
  /\ UNCHANGED <<tenantTreeVars, webhookVars>>

Next == \E msg \in InboundMessages : ProcessInbound(msg)

Spec == Init /\ [][Next]_vars

-----------------------------------------------------------------------------
(* The validator as it is called: one tree definition *)

InitValidator ==
  /\ tree \in Trees
  /\ conversation = [currentNodeKey |-> Undefined, answers |-> UndefinedAnswers]
  /\ inboundMessage = NoMessage
  /\ output = NoOutput
  /\ issues = NotValidated
  /\ StorageIdle

\* one safeParse of a tree definition
Validate ==
  /\ issues = NotValidated
  /\ issues' \in tenantTreeNodesSchema(tree)
  /\ UNCHANGED <<tree, conversation, inboundMessage, output>>
  /\ UNCHANGED <<tenantTreeVars, webhookVars>>

NextValidator == Validate

SpecValidator == InitValidator /\ [][NextValidator]_vars

-----------------------------------------------------------------------------
(* PUT /tenants/:tenantId/tree (src/routes/protected) *)

\* what requireTenantRole finds for the caller
Memberships == {"tenant_admin", "agent", "viewer", "none", "user id missing", "lookup failed"}

Response(status) == [status |-> status]

InitTenantTree ==
  /\ tree \in Trees
  /\ conversation = [currentNodeKey |-> Undefined, answers |-> UndefinedAnswers]
  /\ inboundMessage = NoMessage
  /\ output = NoOutput
  /\ issues = NotValidated
  /\ tenant_trees \in {NoRow} \cup StoredTrees
  /\ TenantTreeIdle
  /\ WebhookIdle

\* one PUT with the tree as payload, by a caller of the given membership;
\* saved tells whether the upsert succeeds
PutTenantTree(membership, saved) ==
  /\ res = <<>>
  /\ IF membership = "lookup failed"
       THEN /\ res' = << Response(500) >>
            /\ UNCHANGED <<issues, tenant_trees, upsertTenantTreeCalls>>
     ELSE IF membership # "tenant_admin"
       THEN /\ res' = << Response(403) >>
            /\ UNCHANGED <<issues, tenant_trees, upsertTenantTreeCalls>>
     ELSE /\ issues' \in tenantTreeNodesSchema(tree)
          /\ IF ~Success(issues')
               THEN /\ res' = << Response(400) >>
                    /\ UNCHANGED <<tenant_trees, upsertTenantTreeCalls>>
             ELSE /\ upsertTenantTreeCalls' = upsertTenantTreeCalls + 1
                  /\ IF saved
                       THEN tenant_trees' = tree /\ res' = << Response(200) >>
                       ELSE tenant_trees' = tenant_trees /\ res' = << Response(500) >>
  /\ UNCHANGED <<tree, conversation, inboundMessage, output>>
  /\ UNCHANGED webhookVars

NextTenantTree == \E membership \in Memberships, saved \in BOOLEAN : PutTenantTree(membership, saved)

SpecTenantTree == InitTenantTree /\ [][NextTenantTree]_vars

-----------------------------------------------------------------------------
(* POST /webhooks/whatsapp (src/routes/whatsapp): each request runs the      *)
(* handler from await to await; requests interleave at the awaits.           *)

InitWebhook ==
  /\ EngineIdle
  /\ tenant_trees \in {NoRow} \cup StoredTrees
  /\ TenantTreeIdle
  /\ WebhookIdle

\* the positions at which a request awaits a repository or a send
Awaiting ==
  {"isDuplicateMessage", "markMessageProcessed", "getConversation", "getTenantTree",
   "upsertConversation", "send", "updateConversation"}

\* how the handler leaves before its first query
Prologues ==
  {"ok", "no message", "tenant not configured", "invalid signature", "missing access token"}

\* res.status(...) and the return: the locals of the request are gone
Responded(h, status, outcome) ==
  [requests EXCEPT ![h] =
     [IdleRequest EXCEPT !.pc = "responded", !.status = status, !.outcome = outcome,
                         !.afterHandoff = requests[h].afterHandoff]]

At(h, pc) == requests[h].pc = pc

\* the handoff flag of the customer's row is true in the table
HandoffPersisted(customer) ==
  conversations[customer] # NoRow /\ conversations[customer].handoff_to_human

Goto(h, pc) == [requests EXCEPT ![h].pc = pc]

FromOf(h) == deliveries[requests[h].messageId].from

MessageOf(h) == deliveries[requests[h].messageId].message

\* the slot holds no request in flight
Free(h) == requests[h].pc \in {"idle", "responded"}

\* a delivery reaches the handler: the payload checks, the tenant lookup and
\* the signature check, up to the first query on wa_inbound_dedupe. Requests
\* having no identity of their own, a new one takes the first free slot.
Receive(h, id, prologue) ==
  /\ Free(h)
  /\ \A g \in RequestSlots : g < h => ~Free(g)
  /\ requests' =
       [requests EXCEPT ![h] =
          [IdleRequest EXCEPT
             !.messageId = IF prologue = "no message" THEN NoMessageId ELSE id,
             !.afterHandoff = prologue # "no message"
                              /\ HandoffPersisted(deliveries[id].from),
             !.pc = IF prologue = "ok" THEN "isDuplicateMessage" ELSE "responded",
             !.status = IF prologue = "ok" THEN 0
                        ELSE IF prologue = "invalid signature" THEN 401 ELSE 200,
             !.outcome = IF prologue = "ok" THEN "pending" ELSE prologue]]
  /\ UNCHANGED <<wa_inbound_dedupe, conversations, effects>>
  /\ UNCHANGED <<engineVars, tenantTreeVars, deliveries>>

IsDuplicateMessage(h) ==
  /\ At(h, "isDuplicateMessage")
  /\ requests' = IF requests[h].messageId \in wa_inbound_dedupe
                 THEN Responded(h, 200, "duplicate")
                 ELSE Goto(h, "markMessageProcessed")
  /\ UNCHANGED <<wa_inbound_dedupe, conversations, effects>>
  /\ UNCHANGED <<engineVars, tenantTreeVars, deliveries>>

MarkMessageProcessed(h) ==
  /\ At(h, "markMessageProcessed")
  /\ IF UniqueViolation(wa_inbound_dedupe, requests[h].messageId)
       THEN /\ requests' = Responded(h, 200, "duplicate key")
            /\ UNCHANGED wa_inbound_dedupe
       ELSE /\ wa_inbound_dedupe' = wa_inbound_dedupe \cup {requests[h].messageId}
            /\ requests' = Goto(h, "getConversation")
  /\ UNCHANGED <<conversations, effects>>
  /\ UNCHANGED <<engineVars, tenantTreeVars, deliveries>>

GetConversation(h) ==
  /\ At(h, "getConversation")
  /\ LET existingConversation == conversations[FromOf(h)]
     IN requests' =
          IF handoffToHuman(existingConversation)
          THEN Responded(h, 200, "handoff")
          ELSE [requests EXCEPT ![h].pc = "getTenantTree",
                                ![h].existingConversation = existingConversation]
  /\ UNCHANGED <<wa_inbound_dedupe, conversations, effects>>
  /\ UNCHANGED <<engineVars, tenantTreeVars, deliveries>>

\* getTenantTree and, with the tree it returns, the call of processInbound
GetTenantTree(h) ==
  /\ At(h, "getTenantTree")
  /\ LET treeDefinition == treeDefinitionOf(tenant_trees)
         result == processInbound(ConversationOf(requests[h].existingConversation),
                                  MessageOf(h), treeDefinition)
     IN /\ effects' = [effects EXCEPT
                        ![requests[h].messageId].engineCalls = @ + 1,
                        ![requests[h].messageId].advanced =
                          Advances(ConversationOf(requests[h].existingConversation),
                                   MessageOf(h), treeDefinition)]
        /\ requests' =
             IF result = Threw
             THEN Responded(h, 200, "failed")
             ELSE [requests EXCEPT ![h].pc = "upsertConversation",
                                   ![h].treeDefinition = treeDefinition,
                                   ![h].result = result]
  /\ UNCHANGED <<wa_inbound_dedupe, conversations>>
  /\ UNCHANGED <<engineVars, tenantTreeVars, deliveries>>

UpsertConversation(h) ==
  /\ At(h, "upsertConversation")
  /\ conversations' =
       [conversations EXCEPT ![FromOf(h)] =
          UpsertedRow(@, requests[h].result.nextNodeKey, requests[h].result.updatedAnswers)]
  /\ effects' = [effects EXCEPT ![requests[h].messageId].upserts = @ + 1]
  /\ requests' = Goto(h, "send")
  /\ UNCHANGED wa_inbound_dedupe
  /\ UNCHANGED <<engineVars, tenantTreeVars, deliveries>>

\* sendText, sendButtons or sendList, by the type of the response action
Send(h) ==
  /\ At(h, "send")
  /\ effects' = [effects EXCEPT ![requests[h].messageId].sends =
                   Append(@, RenderOutbound(FromOf(h), requests[h].result.responseAction))]
  /\ requests' = IF requests[h].result.shouldHandoff
                 THEN Goto(h, "updateConversation")
                 ELSE Responded(h, 200, "ok")
  /\ UNCHANGED <<wa_inbound_dedupe, conversations>>
  /\ UNCHANGED <<engineVars, tenantTreeVars, deliveries>>

UpdateConversation(h) ==
  /\ At(h, "updateConversation")
  /\ conversations' =
       [conversations EXCEPT ![FromOf(h)] =
          IF @ = NoRow THEN @ ELSE [@ EXCEPT !.handoff_to_human = TRUE]]
  /\ requests' = Responded(h, 200, "ok")
  /\ UNCHANGED <<wa_inbound_dedupe, effects>>
  /\ UNCHANGED <<engineVars, tenantTreeVars, deliveries>>

Fail_500(h) ==
  /\ requests[h].pc \in Awaiting
  /\ requests' = Responded(h, 500, "failed")
  /\ UNCHANGED <<wa_inbound_dedupe, conversations, effects>>
  /\ UNCHANGED <<engineVars, tenantTreeVars, deliveries>>

\* the awaited call rejects: the catch block logs and answers 200
Fail(h) ==
  /\ requests[h].pc \in Awaiting
  /\ requests' = Responded(h, 200, "failed")
  /\ UNCHANGED <<wa_inbound_dedupe, conversations, effects>>
  /\ UNCHANGED <<engineVars, tenantTreeVars, deliveries>>

NextWebhook ==
  \E h \in RequestSlots :
    \/ \E id \in MessageIds, prologue \in Prologues : Receive(h, id, prologue)
    \/ IsDuplicateMessage(h)
    \/ MarkMessageProcessed(h)
    \/ GetConversation(h)
    \/ GetTenantTree(h)
    \/ UpsertConversation(h)
    \/ Send(h)
    \/ UpdateConversation(h)
    \/ Fail(h)

SpecWebhook == InitWebhook /\ [][NextWebhook]_vars

-----------------------------------------------------------------------------
(* The webhook on the default tree, from a conversation the customer has     *)
(* brought some way along it: the messages handled so far were handled one   *)
(* after the other, and two more are delivered, in any interleaving.         *)

\* the replies that lead through TREE: a service, a date, a city, a budget
LeadReplies ==
  << InboundInteractiveMessage(NoString, S_rent),
     InboundTextMessage(S_20_de_julio),
     InboundInteractiveMessage(S_saltillo, NoString),
     InboundInteractiveMessage(S_budget_low, NoString) >>

\* the output of the engine for the k-th reply, the replies before it having
\* been handled in their order from no stored state
RECURSIVE LeadOutput(_)
LeadOutput(k) ==
  processInbound(IF k = 1 THEN ConversationOf(NoRow)
                 ELSE [currentNodeKey |-> LeadOutput(k - 1).nextNodeKey,
                       answers |-> LeadOutput(k - 1).updatedAnswers],
                 LeadReplies[k], NoTree)

\* the ids of the k replies handled so far
HandledIds(k) == (MaxMessageIds + 1)..(MaxMessageIds + k)

\* the deliveries after k replies: under the odd ids the replies that come
\* next, under the even ids a picture
LeadDeliveries(k) ==
  [id \in MessageIds \cup HandledIds(k) |->
     [from |-> TheLead,
      message |->
        IF id \in HandledIds(k) THEN LeadReplies[id - MaxMessageIds]
        ELSE IF id % 2 = 0 THEN InboundOtherMessage("image")
        ELSE LeadReplies[((k + (id - 1) \div 2) % Len(LeadReplies)) + 1]]]

\* the tables after the webhook has handled k replies one after the other
LeadHandled(k) ==
  /\ wa_inbound_dedupe = HandledIds(k)
  /\ conversations =
       [c \in Customers |->
          IF k = 0 THEN NoRow
          ELSE ConversationRow(LeadOutput(k).nextNodeKey, LeadOutput(k).updatedAnswers,
                               FALSE)]
  /\ deliveries = LeadDeliveries(k)
  /\ effects =
       [id \in MessageIds \cup HandledIds(k) |->
          IF id \in MessageIds THEN NoEffects
          ELSE [engineCalls |-> 1, upserts |-> 1,
                sends |-> << RenderOutbound(TheLead,
                                            LeadOutput(id - MaxMessageIds).responseAction) >>,
                advanced |-> TRUE]]
  /\ requests = [h \in RequestSlots |-> IdleRequest]

InitLead ==
  /\ EngineIdle
  /\ tenant_trees = NoRow
  /\ TenantTreeIdle
  /\ \E k \in 0..(Len(LeadReplies) - 1) : LeadHandled(k)

SpecLead == InitLead /\ [][NextWebhook]_vars

-----------------------------------------------------------------------------
(* Vocabulary of the properties *)

\* the tree the call works on
GivenTree == IF tree = NoTree THEN TREE ELSE tree

Keys == DOMAIN GivenTree.nodes

Called == output # NoOutput

Returned == Called /\ output # Threw

\* the stored answers, an absent mapping being the empty one
StoredAnswers ==
  IF conversation.answers = UndefinedAnswers THEN EmptyAnswers ELSE conversation.answers

\* the state names a node of the tree
AtNode == conversation.currentNodeKey \in Keys

\* the state names a node of type end
AtEndNode == AtNode /\ GivenTree.nodes[conversation.currentNodeKey].type = "end"

\* the message carries no answer: neither a text body nor a reply id
CarriesNoAnswer ==
  /\ ~(inboundMessage.type = "text" /\ inboundMessage.text.isRecord
       /\ inboundMessage.text.body # NoString)
  /\ ~(inboundMessage.type = "interactive" /\ inboundMessage.interactive.isRecord
       /\ (inboundMessage.interactive.button_reply # NoString
           \/ inboundMessage.interactive.list_reply # NoString))

\* the answer the message carries, and whether the engine takes it as one
ExtractedAnswer == parseInboundAnswer(inboundMessage)

AnswerGiven == ExtractedAnswer # NoString /\ ExtractedAnswer # EmptyString

\* the rendering of the start node
StartResponse == buildResponseAction(GivenTree.nodes["start"])

-----------------------------------------------------------------------------
(* C1 *)

\* C1 as stated: for every tree, a state at a node of type end yields
\* nextNodeKey = "start", shouldHandoff = FALSE and the start node's response.
C1_TerminalRestartAnyTree ==
  (Called /\ AtEndNode) =>
    /\ Returned
    /\ output.nextNodeKey = "start"
    /\ output.shouldHandoff = FALSE
    /\ "start" \in Keys
    /\ output.responseAction = StartResponse

\* C1, amended: for every tree that has a start node, every answers mapping and
\* every inbound message, a state at a node of type end yields
\* nextNodeKey = "start", shouldHandoff = FALSE and the start node's response.
C1_TerminalRestart ==
  (Called /\ AtEndNode /\ "start" \in Keys) =>
    /\ Returned
    /\ output.nextNodeKey = "start"
    /\ output.shouldHandoff = FALSE
    /\ output.responseAction = StartResponse
    /\ output.updatedAnswers = StoredAnswers

\* a state at an end node other than start answered a matching text message
\* with the start menu
C1_Witness ==
  /\ Called
  /\ AtEndNode
  /\ conversation.currentNodeKey # "start"
  /\ "start" \in Keys
  /\ inboundMessage = InboundTextMessage(S_rent)
  /\ output.nextNodeKey = "start"
  /\ output.responseAction.type = "list"

-----------------------------------------------------------------------------
(* C2 *)

\* C2 as stated, on trees that have a start node and for states that store no
\* key or a key of the tree: a message without an answer leaves nextNodeKey at
\* the stored key when one is stored, at "start" when none is, and leaves the
\* answers as stored.
C2_IdempotentRepromptAnyState ==
  (Called /\ CarriesNoAnswer /\ "start" \in Keys
     /\ (conversation.currentNodeKey = Undefined \/ AtNode)) =>
    /\ Returned
    /\ output.nextNodeKey =
         (IF conversation.currentNodeKey # Undefined
          THEN conversation.currentNodeKey ELSE "start")
    /\ output.updatedAnswers = StoredAnswers

\* C2, amended: on a tree that has a start node, a message without an answer
\* leaves the answers as stored whatever the state is; nextNodeKey is the
\* stored key when it names a node of the tree that is not of type end, and
\* "start" when no key is stored or the stored key names a node of type end.
C2_IdempotentReprompt ==
  (Called /\ (CarriesNoAnswer \/ ~AnswerGiven) /\ "start" \in Keys) =>
    /\ Returned
    /\ output.updatedAnswers = StoredAnswers
    /\ output.shouldHandoff = FALSE
    /\ (AtNode /\ ~AtEndNode) => output.nextNodeKey = conversation.currentNodeKey
    /\ (conversation.currentNodeKey = Undefined \/ AtEndNode) => output.nextNodeKey = "start"

\* an unrecognized message reprompted a node other than start, answers kept
C2_Witness ==
  /\ Called
  /\ "start" \in Keys
  /\ inboundMessage = InboundOtherMessage("image")
  /\ AtNode /\ ~AtEndNode
  /\ conversation.currentNodeKey # "start"
  /\ conversation.answers = [service |-> S_dj, note |-> S_vip]
  /\ output.nextNodeKey = conversation.currentNodeKey

-----------------------------------------------------------------------------
(* C3 *)

\* the validator reports no issue for the tree
ValidatorAccepts(t) == \A reported \in tenantTreeNodesSchema(t) : Success(reported)

\* C3: for every tree the validator accepts, every state and every message the
\* call returns, the returned nextNodeKey is a key of the tree and the returned
\* response action is the rendering of the node stored under that key.
C3_WellFormedOutput ==
  (Called /\ ValidatorAccepts(GivenTree)) =>
    /\ Returned
    /\ output.nextNodeKey \in Keys
    /\ output.responseAction = buildResponseAction(GivenTree.nodes[output.nextNodeKey])

-----------------------------------------------------------------------------
(* C4 *)

\* the same call made with no stored key
OutputWithoutKey ==
  processInbound([conversation EXCEPT !.currentNodeKey = Undefined], inboundMessage, tree)

\* C4: on a tree the validator accepts, a stored key that is not a key of the
\* tree gives the output of the same call with no stored key, and no error.
C4_StaleStateRestart ==
  (Called /\ ValidatorAccepts(GivenTree)
     /\ conversation.currentNodeKey # Undefined /\ ~AtNode) =>
    /\ Returned
    /\ output = OutputWithoutKey

-----------------------------------------------------------------------------
(* C5 *)

\* the state names its node: a key of the tree, or no key on a tree with start
NamesNode == AtNode \/ (conversation.currentNodeKey = Undefined /\ "start" \in Keys)

CurrentKey == IF AtNode THEN conversation.currentNodeKey ELSE "start"

CurrentNode == GivenTree.nodes[CurrentKey]

AtMenu == NamesNode /\ CurrentNode.type \in {"list", "buttons"}

\* the options whose lower-cased id or title is the trimmed, lower-cased answer
MatchingOptions ==
  {i \in 1..Len(CurrentNode.options) :
     \/ ToLowerCase(CurrentNode.options[i].id) = ToLowerCase(Trim(ExtractedAnswer))
     \/ ToLowerCase(CurrentNode.options[i].title) = ToLowerCase(Trim(ExtractedAnswer))}

\* C5: at a list/buttons node declaring saveAs = x, an answer that matches none
\* of the options is stored under x as extracted, nextNodeKey is the current
\* key, the current node is rendered again and shouldHandoff is FALSE.
C5_SaveAsAcrossNonAdvance ==
  (Called /\ AtMenu /\ TruthyKey(CurrentNode.saveAs) /\ AnswerGiven
     /\ MatchingOptions = {}) =>
    /\ Returned
    /\ CurrentNode.saveAs \in DOMAIN output.updatedAnswers
    /\ output.updatedAnswers[CurrentNode.saveAs] = ExtractedAnswer
    /\ output.nextNodeKey = CurrentKey
    /\ output.responseAction = buildResponseAction(CurrentNode)
    /\ output.shouldHandoff = FALSE

\* an upper-case answer matching no option of a menu other than start was
\* stored as typed over an older value
C5_Witness ==
  /\ Called
  /\ AtMenu
  /\ CurrentKey # "start"
  /\ CurrentNode.saveAs = "note"
  /\ conversation.answers = [service |-> S_dj, note |-> S_vip]
  /\ inboundMessage = InboundInteractiveMessage(S_RENT, S_xx)
  /\ MatchingOptions = {}
  /\ output.updatedAnswers = [service |-> S_dj, note |-> S_RENT]

-----------------------------------------------------------------------------
(* C6 *)

\* the node the engine works on, as it resolves the stored key
EngineFallbackKey == resolveNodeKey(GivenTree, "start")

EngineCurrentKey ==
  resolveNodeKey(GivenTree, IF conversation.currentNodeKey # Undefined
                            THEN conversation.currentNodeKey ELSE EngineFallbackKey)

EngineCurrentNode ==
  Coalesce(Lookup(GivenTree, EngineCurrentKey), Lookup(GivenTree, EngineFallbackKey))

\* the key of the edge the answer selects, and the node it resolves to
SelectedEdge == NextNodeKeyOf(EngineCurrentNode, ExtractedAnswer)

Advanced ==
  /\ TypeOf(EngineCurrentNode) # "end"
  /\ AnswerGiven
  /\ TruthyKey(SelectedEdge)

ResolvedNextNode ==
  Coalesce(Lookup(GivenTree, SelectedEdge),
           Coalesce(Lookup(GivenTree, EngineFallbackKey), Lookup(GivenTree, EngineCurrentKey)))

\* C6: shouldHandoff is TRUE exactly when the engine advances along an edge and
\* the node it resolves as next is of type end; it is FALSE on terminal
\* restart, without an answer and on an unmatched option.
C6_HandoffIffAdvanceToEnd ==
  Returned =>
    /\ output.shouldHandoff = (Advanced /\ TypeOf(ResolvedNextNode) = "end")
    /\ output.shouldHandoff =>
         /\ output.responseAction.type = "end"
         /\ output.nextNodeKey = SelectedEdge
    /\ TypeOf(EngineCurrentNode) = "end" => ~output.shouldHandoff
    /\ ~AnswerGiven => ~output.shouldHandoff
    /\ (AtMenu /\ AnswerGiven /\ MatchingOptions = {}) => ~output.shouldHandoff

\* a matched option led to a node of type end and the flag was raised
C6_Witness ==
  /\ Returned
  /\ AtMenu
  /\ MatchingOptions # {}
  /\ output.nextNodeKey \in Keys
  /\ GivenTree.nodes[output.nextNodeKey].type = "end"
  /\ output.shouldHandoff

-----------------------------------------------------------------------------
(* C7 *)

\* the option {id: "rent", title: "Renta"} is the i-th of the current menu
RentOption(i) ==
  /\ i \in 1..Len(CurrentNode.options)
  /\ CurrentNode.options[i].id = S_rent
  /\ CurrentNode.options[i].title = S_Renta

\* the answers "RENT", " rent " and "renta", typed or sent as a reply id
RentAnswers ==
  { InboundTextMessage(S_RENT), InboundTextMessage(S_rent_padded),
    InboundTextMessage(S_renta), InboundInteractiveMessage(S_RENT, S_xx) }

\* C7: an answer selects an option when, trimmed and lower-cased, it equals the
\* option's lower-cased id or title: "RENT", " rent " and "renta" all lead to
\* the next of the option {id: "rent", title: "Renta"}; an answer equal to no
\* option's id or title leads nowhere.
C7_CaseInsensitiveMatching ==
  (Called /\ AtMenu /\ AnswerGiven) =>
    /\ \A i \in 1..Len(CurrentNode.options) :
         (RentOption(i) /\ inboundMessage \in RentAnswers
            /\ TruthyKey(CurrentNode.options[i].next)
            /\ \A j \in MatchingOptions : i <= j)
         => (Returned /\ output.nextNodeKey = CurrentNode.options[i].next)
    /\ MatchingOptions = {} => (Returned /\ output.nextNodeKey = CurrentKey)
    /\ (MatchingOptions # {}
          /\ \A i \in MatchingOptions : TruthyKey(CurrentNode.options[i].next))
       => (Returned /\ output.nextNodeKey \in
                         {CurrentNode.options[i].next : i \in MatchingOptions})

\* the title typed in lower case selected the option {rent, Renta}
C7_Witness ==
  /\ Called
  /\ AtMenu
  /\ RentOption(1)
  /\ inboundMessage = InboundTextMessage(S_renta)
  /\ CurrentNode.options[1].next = "date"
  /\ output.nextNodeKey = "date"

-----------------------------------------------------------------------------
(* C8 *)

\* C8: on the scenario tree, a list reply "rent" from the empty state leads to
\* date with answers {service: rent} and the text response of date; then the
\* text "20 de julio" leads to done with both answers, a response of type end
\* and shouldHandoff = TRUE.
C8_EndToEndScenario ==
  (Called /\ tree = ScenarioTree) =>
    /\ (conversation.currentNodeKey = Undefined /\ StoredAnswers = EmptyAnswers
          /\ inboundMessage = InboundInteractiveMessage(NoString, S_rent))
       => output = [threw |-> FALSE,
                    nextNodeKey |-> "date",
                    updatedAnswers |-> [service |-> S_rent],
                    responseAction |-> [type |-> "text", body |-> "Fecha?"],
                    shouldHandoff |-> FALSE]
    /\ (conversation = [currentNodeKey |-> "date", answers |-> [service |-> S_rent]]
          /\ inboundMessage = InboundTextMessage(S_20_de_julio))
       => output = [threw |-> FALSE,
                    nextNodeKey |-> "done",
                    updatedAnswers |-> [service |-> S_rent, date |-> S_20_de_julio],
                    responseAction |-> [type |-> "end", body |-> "Gracias"],
                    shouldHandoff |-> TRUE]

\* the second step of the scenario was made from the state the first step left
C8_Witness ==
  /\ Called
  /\ tree = ScenarioTree
  /\ conversation = [currentNodeKey |-> "date", answers |-> [service |-> S_rent]]
  /\ inboundMessage = InboundTextMessage(S_20_de_julio)
  /\ output.nextNodeKey = "done"

-----------------------------------------------------------------------------
(* C9 *)

Validated == issues # NotValidated

\* every node has the fields its type requires
WellTyped == \A k \in DOMAIN tree.nodes : nodeSchema(tree.nodes[k])

\* the next references of the tree that name no key of it: <<key, -1>> for a
\* text node's next, <<key, index>> for an option's next
DanglingReferences ==
  {<<k, -1>> : k \in {q \in DOMAIN tree.nodes :
                        tree.nodes[q].type = "text" /\ tree.nodes[q].next \notin DOMAIN tree.nodes}}
  \cup UNION {{<<k, i - 1>> : i \in {j \in 1..Len(tree.nodes[k].options) :
                                      tree.nodes[k].options[j].next \notin DOMAIN tree.nodes}} :
                k \in {q \in DOMAIN tree.nodes : tree.nodes[q].type \in {"list", "buttons"}}}

\* C9: a tree the validator accepts is non-empty, contains start, and every
\* text next and every option next of it is a key of the mapping.
C9_ValidatorSoundness ==
  (Validated /\ Success(issues)) =>
    /\ DOMAIN tree.nodes # {}
    /\ "start" \in DOMAIN tree.nodes
    /\ DanglingReferences = {}

-----------------------------------------------------------------------------
(* C10 *)

PathOf(ref) == IF ref[2] = -1 THEN <<ref[1], "next">> ELSE <<ref[1], "options", ref[2], "next">>

IssuesAt(path) == {n \in 1..Len(issues) : issues[n].path = path}

IssuesSaying(message) == {n \in 1..Len(issues) : issues[n].message = message}

\* C10: for a well-typed tree the validator reports exactly one violation per
\* dangling next reference, carrying its node key (and option index), one
\* violation when start is absent, and nothing else but the empty-tree notice.
C10_DiagnosticsComplete ==
  (Validated /\ WellTyped) =>
    /\ \A ref \in DanglingReferences : Cardinality(IssuesAt(PathOf(ref))) = 1
    /\ Cardinality(IssuesSaying("tree must define a start node")) =
         (IF "start" \in DOMAIN tree.nodes THEN 0 ELSE 1)
    /\ Len(issues) = Cardinality(DanglingReferences)
                     + (IF "start" \in DOMAIN tree.nodes THEN 0 ELSE 1)
                     + (IF DOMAIN tree.nodes = {} THEN 1 ELSE 0)

-----------------------------------------------------------------------------
(* C16 *)

\* the targets of the edges of a node
EdgesOf(node) ==
  IF node.type = "text" THEN {node.next}
  ELSE IF node.type \in {"list", "buttons"}
    THEN {node.options[i].next : i \in 1..Len(node.options)}
  ELSE {}

\* on msg the engine, started at the stored state, advances along an edge of
\* the current node
TakesEdge(msg) ==
  LET out == processInbound(conversation, msg, tree)
      answer == parseInboundAnswer(msg)
      edge == NextNodeKeyOf(CurrentNode, answer)
  IN /\ out # Threw
     /\ TruthyString(answer)
     /\ TruthyKey(edge)
     /\ edge \in EdgesOf(CurrentNode)
     /\ out.nextNodeKey = edge

\* the replies a customer gives to the options of a node: a tap on the button
\* or the list row of an option, its id typed, its title typed
RepliesTo(node) ==
  IF node.type \in {"list", "buttons"}
  THEN UNION {{InboundInteractiveMessage(node.options[i].id, NoString),
               InboundInteractiveMessage(NoString, node.options[i].id),
               InboundTextMessage(node.options[i].id),
               InboundTextMessage(node.options[i].title)} : i \in 1..Len(node.options)}
  ELSE {}

\* C16: for every tree the validator accepts and every node of it that is not
\* of type end, there is an inbound message on which processInbound, started
\* at that node, takes one of the node's edges.
C16_NeverStuck ==
  (~Called /\ ValidatorAccepts(GivenTree) /\ AtNode /\ CurrentNode.type # "end") =>
    \E msg \in InboundMessages \cup RepliesTo(CurrentNode) : TakesEdge(msg)

-----------------------------------------------------------------------------
(* C17 *)

\* C17: a well-typed tree is accepted exactly when its mapping is non-empty,
\* contains start, and every text next and every option next is a key of it.
C17_ValidatorCompleteness ==
  (Validated /\ WellTyped) =>
    (Success(issues) <=>
       /\ DOMAIN tree.nodes # {}
       /\ "start" \in DOMAIN tree.nodes
       /\ DanglingReferences = {})

-----------------------------------------------------------------------------
(* C19 *)

\* the key under which the engine records the answer of this call, if any
RecordedKey == SaveAsOf(EngineCurrentNode)

\* an answer was extracted at a node that is not terminal and declares saveAs
Recorded ==
  /\ AnswerGiven
  /\ TypeOf(EngineCurrentNode) # "end"
  /\ TruthyKey(RecordedKey)

\* C19: updatedAnswers keeps every key of the stored answers, with its value
\* for every key but the current node's saveAs; the saveAs key holds the
\* extracted answer exactly when an answer was extracted at a node that is
\* not of type end, and otherwise the answers are returned as they were
\* stored; no key is removed, on terminal restart either.
C19_AnswersFrame ==
  Returned =>
    /\ DOMAIN StoredAnswers \subseteq DOMAIN output.updatedAnswers
    /\ \A k \in DOMAIN StoredAnswers :
         (Recorded /\ k = RecordedKey) \/ output.updatedAnswers[k] = StoredAnswers[k]
    /\ Recorded =>
         /\ DOMAIN output.updatedAnswers = DOMAIN StoredAnswers \cup {RecordedKey}
         /\ output.updatedAnswers[RecordedKey] = ExtractedAnswer
    /\ ~Recorded => output.updatedAnswers = StoredAnswers

\* an answer overwrites the stored value of the saveAs key and another stored
\* key is kept
C19_Witness ==
  /\ Returned
  /\ Recorded
  /\ RecordedKey \in DOMAIN StoredAnswers
  /\ StoredAnswers[RecordedKey] # ExtractedAnswer
  /\ output.updatedAnswers[RecordedKey] = ExtractedAnswer
  /\ \E k \in DOMAIN StoredAnswers :
       k # RecordedKey /\ output.updatedAnswers[k] = StoredAnswers[k]

-----------------------------------------------------------------------------
(* C20 *)

\* the engine advances along an edge whose target is no key of the tree
DanglingAdvance == Advanced /\ SelectedEdge \notin Keys

\* C20: on a tree with a start node, when the engine advances along an edge
\* whose target key is absent from the tree, it returns, the response action
\* is the one of the start node, and the returned nextNodeKey is a key of the
\* tree, start.
C20_DanglingNextFallback ==
  (Called /\ "start" \in Keys /\ DanglingAdvance) =>
    /\ Returned
    /\ output.responseAction = StartResponse
    /\ output.nextNodeKey \in Keys
    /\ output.nextNodeKey = "start"

-----------------------------------------------------------------------------
(* C15 *)

\* C15: a PUT of a tree on which the validator reports at least one violation
\* is answered with one response, of status 400, does not call
\* upsertTenantTree and leaves the stored tree as it was.
C15_RejectedTreeNotPersisted ==
  [][(issues' # NotValidated /\ Len(issues') >= 1) =>
       /\ res' = << Response(400) >>
       /\ upsertTenantTreeCalls' = 0
       /\ tenant_trees' = tenant_trees]_vars

\* a tree with a violation was put over a stored tree that differs from it
C15_Witness ==
  /\ issues # NotValidated
  /\ Len(issues) >= 1
  /\ res = << Response(400) >>
  /\ tenant_trees \in StoredTrees
  /\ tenant_trees # tree

-----------------------------------------------------------------------------
(* Vocabulary of the webhook properties *)

\* the request holds the result of its engine call
HoldsResult(h) == requests[h].pc \in {"upsertConversation", "send", "updateConversation"}

\* no request is in flight
Quiescent == \A h \in RequestSlots : requests[h].pc \in {"idle", "responded"}

TheCustomer == CHOOSE c \in Customers : TRUE

\* the tree the handler hands to the engine for the tenant
TenantTree == IF tenant_trees = NoRow THEN TREE ELSE tenant_trees

-----------------------------------------------------------------------------
(* C11 *)

\* C11: a request received when the handoff flag of its customer is persisted
\* as true makes no step that invokes the engine, writes the conversation row
\* or sends an outbound message.
C11_HandoffSuppression ==
  [][\A h \in RequestSlots :
       (requests[h].afterHandoff /\ requests'[h] # requests[h]) =>
         /\ conversations' = conversations
         /\ effects' = effects]_vars

\* a message with a new id, received after the handoff flag was persisted, has
\* been answered without an engine call, an upsert or a send
C11_Witness ==
  \E h \in RequestSlots :
    /\ requests[h].afterHandoff
    /\ requests[h].pc = "responded"
    /\ requests[h].outcome = "handoff"
    /\ HandoffPersisted(TheCustomer)
    /\ \E id \in wa_inbound_dedupe : effects[id] = NoEffects

-----------------------------------------------------------------------------
(* C12 *)

\* the engine applied to the message of a and then, on the state it returns,
\* to the message of b, from no stored state
EngineTwice(a, b) ==
  LET first == processInbound(ConversationOf(NoRow), deliveries[a].message, TenantTree)
      second == processInbound([currentNodeKey |-> first.nextNodeKey,
                                answers |-> first.updatedAnswers],
                               deliveries[b].message, TenantTree)
  IN <<second.nextNodeKey, second.updatedAnswers>>

\* the engine was invoked once for the id and its result was written
Committed(id) == effects[id].engineCalls = 1 /\ effects[id].upserts = 1

\* C12: when the only two messages of a customer, with distinct ids, have both
\* had their engine result written, the persisted current_node and answers are
\* those of the engine applied to the two messages one after the other, in one
\* of the two orders.
C12_NoLostUpdate ==
  \A a, b \in MessageIds :
    (a # b /\ Quiescent /\ wa_inbound_dedupe = {a, b} /\ Committed(a) /\ Committed(b)) =>
      <<conversations[TheCustomer].current_node, conversations[TheCustomer].answers>>
        \in {EngineTwice(a, b), EngineTwice(b, a)}

-----------------------------------------------------------------------------
(* C13 *)

\* C13: for every message id, whatever the number and the interleaving of its
\* deliveries, the engine is invoked at most once, the conversation row is
\* written at most once and at most one outbound message is sent.
C13_InboundDeduplication ==
  \A id \in MessageIds :
    /\ effects[id].engineCalls <= 1
    /\ effects[id].upserts <= 1
    /\ Len(effects[id].sends) <= 1

\* two deliveries of one id raced: one was handled, the other one lost the
\* insert into wa_inbound_dedupe
C13_Witness ==
  \E h \in RequestSlots, id \in MessageIds :
    /\ requests[h].pc = "responded"
    /\ requests[h].outcome = "duplicate key"
    /\ wa_inbound_dedupe = {id}
    /\ effects[id].engineCalls = 1
    /\ effects[id].upserts = 1
    /\ Len(effects[id].sends) = 1

-----------------------------------------------------------------------------
(* C14 *)

\* processInbound without a tree returns what it returns with TREE
EngineDefaultsToTREE ==
  \A conv \in ConversationStates(NoTree), msg \in InboundMessages :
    processInbound(conv, msg, NoTree) = processInbound(conv, msg, TREE)

\* C14: processInbound called without a tree returns, for every state and
\* message, what it returns with the default TREE; and when the tenant has no
\* stored tree row the handler hands TREE to the engine, so that its result is
\* the one of the engine called without a tree.
C14_DefaultTree ==
  /\ EngineDefaultsToTREE
  /\ \A h \in RequestSlots :
       (HoldsResult(h) /\ tenant_trees = NoRow) =>
         /\ requests[h].treeDefinition = TREE
         /\ requests[h].result =
              processInbound(ConversationOf(requests[h].existingConversation),
                             MessageOf(h), NoTree)

\* a tenant without a tree row had a message advance along the default tree
C14_Witness ==
  \E h \in RequestSlots :
    /\ HoldsResult(h)
    /\ tenant_trees = NoRow
    /\ requests[h].treeDefinition = TREE
    /\ requests[h].result.nextNodeKey = "date"

-----------------------------------------------------------------------------
(* C18 *)

RECURSIVE ReachableFrom(_, _)
ReachableFrom(t, keys) ==
  LET more == keys \cup UNION {EdgesOf(t.nodes[k]) : k \in keys \cap DOMAIN t.nodes}
  IN IF more = keys THEN keys ELSE ReachableFrom(t, more)

\* the keys reached from start along text next and option next edges
Reachable(t) == ReachableFrom(t, {"start"})

\* C18: on a tree the validator accepts, a conversation that began without a
\* stored state only has persisted current_node values that are reachable
\* from start along next edges.
C18_UnreachableNodesInert ==
  ValidatorAccepts(TenantTree) =>
    \A c \in Customers :
      conversations[c] # NoRow => conversations[c].current_node \in Reachable(TenantTree)

\* the conversation has moved on a tree that has a node out of reach
C18_Witness ==
  /\ ValidatorAccepts(TenantTree)
  /\ DOMAIN TenantTree.nodes \ Reachable(TenantTree) # {}
  /\ conversations[TheCustomer] # NoRow
  /\ conversations[TheCustomer].current_node # "start"
  /\ effects[1].upserts = 1

-----------------------------------------------------------------------------
(* C21 *)

\* the first of the options the answer matches
FirstMatch == CHOOSE i \in MatchingOptions : \A j \in MatchingOptions : i <= j

\* C21: when the trimmed, lower-cased answer equals the id or the title of more
\* than one option of the current menu, the engine follows the next of the
\* first of these options in the node's option sequence, whether that option
\* matches by its id or by its title.
C21_FirstMatchWins ==
  (Called /\ AtMenu /\ AnswerGiven /\ Cardinality(MatchingOptions) > 1
     /\ TruthyKey(CurrentNode.options[FirstMatch].next)) =>
    /\ Returned
    /\ output.nextNodeKey = CurrentNode.options[FirstMatch].next

\* the answer is the title of the first option and the id of the second, which
\* lead to different nodes, and the engine followed the first
C21_Witness ==
  /\ Called
  /\ AtMenu
  /\ AnswerGiven
  /\ MatchingOptions = {1, 2}
  /\ ToLowerCase(CurrentNode.options[1].title) = ToLowerCase(Trim(ExtractedAnswer))
  /\ ToLowerCase(CurrentNode.options[1].id) # ToLowerCase(Trim(ExtractedAnswer))
  /\ ToLowerCase(CurrentNode.options[2].id) = ToLowerCase(Trim(ExtractedAnswer))
  /\ CurrentNode.options[1].next # CurrentNode.options[2].next
  /\ output.nextNodeKey = CurrentNode.options[1].next

-----------------------------------------------------------------------------
(* C22 *)

\* t is s without the whitespace at its two ends
IsTrimOf(t, s) ==
  \E i \in 1..(Len(s) + 1) :
    \E j \in (i - 1)..Len(s) :
      /\ t = SubSeq(s, i, j)
      /\ \A n \in 1..(i - 1) : s[n] \in WhitespaceChars
      /\ \A n \in (j + 1)..Len(s) : s[n] \in WhitespaceChars
      /\ (i <= j => (s[i] \notin WhitespaceChars /\ s[j] \notin WhitespaceChars))

\* the message is a text message with a body, an interactive message
IsText ==
  inboundMessage.type = "text" /\ inboundMessage.text.isRecord
    /\ inboundMessage.text.body # NoString

IsInteractive == inboundMessage.type = "interactive" /\ inboundMessage.interactive.isRecord

\* C22: a text message yields its body trimmed; an interactive message yields
\* its button-reply id when it has one, otherwise its list-reply id when it
\* has one; an interactive message with neither and a message of any other
\* type yield no answer; the answer recorded at a node declaring saveAs is
\* the one so extracted.
C22_AnswerExtraction ==
  Called =>
    /\ IsText => IsTrimOf(ExtractedAnswer, inboundMessage.text.body)
    /\ (IsInteractive /\ inboundMessage.interactive.button_reply # NoString)
         => ExtractedAnswer = inboundMessage.interactive.button_reply
    /\ (IsInteractive /\ inboundMessage.interactive.button_reply = NoString
          /\ inboundMessage.interactive.list_reply # NoString)
         => ExtractedAnswer = inboundMessage.interactive.list_reply
    /\ (IsInteractive /\ inboundMessage.interactive.button_reply = NoString
          /\ inboundMessage.interactive.list_reply = NoString)
         => ExtractedAnswer = NoString
    /\ (~IsText /\ ~IsInteractive) => ExtractedAnswer = NoString
    /\ (Returned /\ Recorded /\ IsText) =>
         IsTrimOf(output.updatedAnswers[RecordedKey], inboundMessage.text.body)
    /\ (Returned /\ Recorded /\ IsInteractive) =>
         output.updatedAnswers[RecordedKey] \in
           {inboundMessage.interactive.button_reply, inboundMessage.interactive.list_reply}

\* a text body with whitespace around it was recorded without it
C22_Witness ==
  /\ Returned
  /\ Recorded
  /\ IsText
  /\ inboundMessage.text.body = S_rent_padded
  /\ output.updatedAnswers[RecordedKey] = S_rent

-----------------------------------------------------------------------------
(* C27 *)

\* the id an interactive reply carries
ReplyId ==
  IF ~IsInteractive THEN NoString
  ELSE IF inboundMessage.interactive.button_reply # NoString
    THEN inboundMessage.interactive.button_reply
  ELSE inboundMessage.interactive.list_reply

\* the option ids of the current menu are pairwise distinct ignoring case
DistinctIds ==
  \A i, j \in 1..Len(CurrentNode.options) :
    i # j => ToLowerCase(CurrentNode.options[i].id) # ToLowerCase(CurrentNode.options[j].id)

\* C27: at a menu whose option ids are pairwise distinct ignoring case, an
\* interactive reply carrying the id of an option makes the engine follow the
\* next of that option, whatever the titles of the other options are.
C27_ReplySelectsNamedOption ==
  (Called /\ AtMenu /\ DistinctIds /\ ReplyId # NoString) =>
    \A i \in 1..Len(CurrentNode.options) :
      (CurrentNode.options[i].id = ReplyId /\ TruthyKey(CurrentNode.options[i].next)) =>
        (Returned /\ output.nextNodeKey = CurrentNode.options[i].next)

-----------------------------------------------------------------------------
(* C28 *)

\* a text body that is empty or only whitespace, a reply whose id is empty
EmptyAnswerMessage ==
  \/ IsText /\ \A n \in 1..Len(inboundMessage.text.body) :
                 inboundMessage.text.body[n] \in WhitespaceChars
  \/ ReplyId = EmptyString

\* C28: on every node that is not of type end, a text whose body is empty or
\* only whitespace and a reply whose id is the empty string are handled as a
\* message of an unrecognized type is: nextNodeKey is the current node,
\* updatedAnswers are the stored answers and shouldHandoff is FALSE.
C28_EmptyAnswerIsNoAnswer ==
  (Called /\ NamesNode /\ CurrentNode.type # "end" /\ EmptyAnswerMessage) =>
    /\ output = processInbound(conversation, InboundOtherMessage("image"), tree)
    /\ Returned
    /\ output.nextNodeKey = CurrentKey
    /\ output.updatedAnswers = StoredAnswers
    /\ output.shouldHandoff = FALSE

\* a whitespace body at a text node declaring saveAs moved and recorded nothing
C28_Witness ==
  /\ Called
  /\ AtNode
  /\ CurrentNode.type = "text"
  /\ TruthyKey(CurrentNode.saveAs)
  /\ TruthyKey(CurrentNode.next)
  /\ inboundMessage = InboundTextMessage(S_blank)
  /\ output.nextNodeKey = CurrentKey
  /\ output.updatedAnswers = StoredAnswers

-----------------------------------------------------------------------------
(* C29 *)

\* C29: when an answer selects an option of a menu declaring saveAs, the value
\* stored under saveAs is the extracted answer itself, the trimmed text as
\* typed or the reply id as received; it is the id of the selected option
\* only when the answer is exactly that id.
C29_RecordedAnswerIsRaw ==
  (Called /\ AtMenu /\ TruthyKey(CurrentNode.saveAs) /\ AnswerGiven
     /\ MatchingOptions # {}) =>
    /\ Returned
    /\ CurrentNode.saveAs \in DOMAIN output.updatedAnswers
    /\ output.updatedAnswers[CurrentNode.saveAs] = ExtractedAnswer
    /\ IsText => IsTrimOf(output.updatedAnswers[CurrentNode.saveAs],
                          inboundMessage.text.body)
    /\ IsInteractive => output.updatedAnswers[CurrentNode.saveAs] = ReplyId
    /\ (output.updatedAnswers[CurrentNode.saveAs] = CurrentNode.options[FirstMatch].id)
         = (ExtractedAnswer = CurrentNode.options[FirstMatch].id)

\* an option selected by its title in another letter case: the typed text was
\* stored, not the option's id
C29_Witness ==
  /\ Called
  /\ AtMenu
  /\ CurrentNode.saveAs = "service"
  /\ inboundMessage = InboundTextMessage(S_renta)
  /\ MatchingOptions = {1}
  /\ CurrentNode.options[1].id = S_rent
  /\ output.nextNodeKey = CurrentNode.options[1].next
  /\ output.updatedAnswers["service"] = S_renta

-----------------------------------------------------------------------------
(* C23 *)

\* C23: a reply is sent for a message only after the state the engine returned
\* for it has been written to the conversation row, and the handoff flag goes
\* from false to true only by the step of a request whose reply has been sent
\* and whose engine result has shouldHandoff = TRUE.
C23_WebhookStepOrder ==
  [][/\ \A id \in MessageIds :
          effects'[id].sends # effects[id].sends =>
            /\ effects[id].upserts >= 1
            /\ \E h \in RequestSlots :
                 /\ requests[h].messageId = id
                 /\ requests[h].pc = "send"
                 /\ conversations[FromOf(h)] # NoRow
     /\ \A c \in Customers :
          (~HandoffPersisted(c) /\ HandoffPersisted(c)') =>
            \E h \in RequestSlots :
              /\ requests[h].pc = "updateConversation"
              /\ requests'[h].pc = "responded"
              /\ FromOf(h) = c
              /\ requests[h].result.shouldHandoff
              /\ effects[requests[h].messageId].upserts >= 1
              /\ Len(effects[requests[h].messageId].sends) >= 1]_vars

\* a message led to an end node: its state was written, its reply sent and the
\* flag set, and the request was answered
C23_Witness ==
  \E id \in MessageIds :
    /\ Quiescent
    /\ HandoffPersisted(TheCustomer)
    /\ effects[id].upserts = 1
    /\ Len(effects[id].sends) = 1
    /\ effects[id].sends[1].api = "sendText"
    /\ conversations[TheCustomer].current_node \in DOMAIN TenantTree.nodes
    /\ TenantTree.nodes[conversations[TheCustomer].current_node].type = "end"
    /\ effects[id].sends[1].text =
         TenantTree.nodes[conversations[TheCustomer].current_node].body

-----------------------------------------------------------------------------
(* C24 *)

\* the {id, title} pairs of a node's options, in the node's order
PairsOf(node) ==
  [i \in 1..Len(node.options) |->
     [id |-> node.options[i].id, title |-> node.options[i].title]]

\* the response action is the rendering of the node
RendersNode(responseAction, node) ==
  /\ responseAction.type = node.type
  /\ responseAction.body = node.body
  /\ node.type \in {"list", "buttons"} =>
       /\ DOMAIN responseAction = {"type", "body", "options"}
       /\ responseAction.options = PairsOf(node)
  /\ node.type \in {"text", "end"} => DOMAIN responseAction = {"type", "body"}

\* the send call is the transport form of the response action
TransportsAction(send, responseAction) ==
  /\ responseAction.type \in {"text", "end"} =>
       /\ DOMAIN send = {"api", "to", "text"}
       /\ send.api = "sendText"
       /\ send.text = responseAction.body
  /\ responseAction.type = "buttons" =>
       /\ send.api = "sendButtons"
       /\ send.text = responseAction.body
       /\ send.buttons = responseAction.options
  /\ responseAction.type = "list" =>
       /\ send.api = "sendList"
       /\ send.text = responseAction.body
       /\ Len(send.sections) = 1
       /\ Len(send.sections[1].rows) = Len(responseAction.options)
       /\ \A i \in 1..Len(responseAction.options) :
            send.sections[1].rows[i] = responseAction.options[i]

\* C24: the response action the engine returns with the key of a node of the
\* tree carries that node's type and body and, for a list or buttons node,
\* exactly the {id, title} pairs of its options in its order, for a text or
\* end node nothing else; the webhook sends it as one message to the
\* customer, a text or end action as a plain text with the body, a list or
\* buttons action as an interactive message with the pairs in the same order,
\* a list in a single section.
C24_ResponseRendering ==
  [][/\ \A h \in RequestSlots :
          (HoldsResult(h)'
             /\ requests'[h].result.nextNodeKey \in DOMAIN requests'[h].treeDefinition.nodes) =>
            RendersNode(requests'[h].result.responseAction,
                        requests'[h].treeDefinition.nodes[requests'[h].result.nextNodeKey])
     /\ \A h \in RequestSlots :
          (requests[h].pc = "send" /\ requests'[h].pc # "send"
             /\ requests'[h].outcome # "failed") =>
            LET id == requests[h].messageId
            IN /\ Len(effects'[id].sends) = Len(effects[id].sends) + 1
               /\ SubSeq(effects'[id].sends, 1, Len(effects[id].sends)) = effects[id].sends
               /\ effects'[id].sends[Len(effects'[id].sends)].to = FromOf(h)
               /\ TransportsAction(effects'[id].sends[Len(effects'[id].sends)],
                                   requests[h].result.responseAction)
               /\ \A other \in MessageIds \ {id} : effects'[other] = effects[other]]_vars

\* the start menu of the default tree was sent as a list of one section with
\* the three options in their order
C24_Witness ==
  \E id \in MessageIds :
    /\ tenant_trees = NoRow
    /\ Len(effects[id].sends) = 1
    /\ effects[id].sends[1].api = "sendList"
    /\ effects[id].sends[1].text = TREE.nodes["start"].body
    /\ Len(effects[id].sends[1].sections) = 1
    /\ effects[id].sends[1].sections[1].rows = PairsOf(TREE.nodes["start"])
    /\ Len(TREE.nodes["start"].options) = 3

-----------------------------------------------------------------------------
(* C25 *)

\* C25: with a tree the validator accepts, in every state in which no webhook
\* request is in flight, a conversation whose persisted current_node names a
\* node of type end has its handoff flag set, also after a request in which
\* the send or a write failed.
C25_EndImpliesHandoff ==
  (Quiescent /\ ValidatorAccepts(TenantTree)) =>
    \A c \in Customers :
      (/\ conversations[c] # NoRow
       /\ conversations[c].current_node \in DOMAIN TenantTree.nodes
       /\ TenantTree.nodes[conversations[c].current_node].type = "end") =>
        conversations[c].handoff_to_human

-----------------------------------------------------------------------------
(* C26 *)

\* the positions of a request after its insert into wa_inbound_dedupe
PastMark ==
  {"getConversation", "getTenantTree", "upsertConversation", "send", "updateConversation"}

\* C26: a request reads the conversation and runs the engine only with its
\* message id recorded in wa_inbound_dedupe; a request that fails at any
\* await is answered 200 and leaves the id recorded; a delivery whose id is
\* recorded is answered 200 as a duplicate at its next step, without an
\* engine call, a write or a send.
C26_FailureAfterDedupeMark ==
  [][/\ \A h \in RequestSlots :
          requests'[h].pc \in PastMark => requests'[h].messageId \in wa_inbound_dedupe'
     /\ \A id \in MessageIds :
          effects'[id].engineCalls >= 1 => id \in wa_inbound_dedupe'
     /\ wa_inbound_dedupe \subseteq wa_inbound_dedupe'
     /\ \A h \in RequestSlots :
          (requests[h].pc \in Awaiting /\ requests'[h].outcome = "failed") =>
            (requests'[h].pc = "responded" /\ requests'[h].status = 200)
     /\ \A h \in RequestSlots :
          (/\ requests[h].pc \in {"isDuplicateMessage", "markMessageProcessed"}
           /\ requests[h].messageId \in wa_inbound_dedupe
           /\ requests'[h] # requests[h]) =>
            /\ requests'[h].pc = "responded"
            /\ requests'[h].status = 200
            /\ requests'[h].outcome \in {"duplicate", "duplicate key", "failed"}
            /\ effects' = effects
            /\ conversations' = conversations]_vars

\* the request of a message failed after the engine ran and before the state
\* was written, and a later delivery of the message was skipped as a duplicate
C26_Witness ==
  \E h, g \in RequestSlots, id \in MessageIds :
    /\ h # g
    /\ requests[g].pc = "responded"
    /\ requests[g].outcome = "failed"
    /\ requests[g].status = 200
    /\ requests[h].pc = "responded"
    /\ requests[h].outcome = "duplicate"
    /\ wa_inbound_dedupe = {id}
    /\ effects[id].engineCalls = 1
    /\ effects[id].upserts = 0
    /\ effects[id].sends = <<>>

-----------------------------------------------------------------------------
(* C30 *)

\* the messages for which the engine moved the conversation along an edge
AdvancingMessages == {id \in DOMAIN effects : effects[id].advanced}

\* C30: with the default tree, for a conversation started from no stored state
\* and driven by webhook messages only, one after the other or concurrently,
\* the handoff flag is set only when the persisted answers hold a value for
\* service, date, city and budget, and not before the fourth advancing message.
C30_LeadCompleteness ==
  \A c \in Customers :
    (tenant_trees = NoRow /\ HandoffPersisted(c)) =>
      /\ {"service", "date", "city", "budget"} \subseteq DOMAIN conversations[c].answers
      /\ Cardinality(AdvancingMessages) >= 4

====
